---------------------------- MODULE Spec2Model ----------------------------
(* Breadth-first and depth-first search of sd23061_lab1.py, with the       *)
(* alphabetical tie-break, the per-step trace, the level map and the path  *)
(* reconstruction.  Node identifiers are the integers 1..8 standing for    *)
(* the letters 'A'..'H' in their alphabetical order.                       *)
EXTENDS Integers, Sequences, FiniteSets, TLC

\* ------------------------------------------------------------------ bounds
\* The bounded graphs use the nodes 1..NumNodes and have at most MaxEdges
\* entries in all their successor lists together.
NumNodes == 3
MaxEdges == 2

\* ------------------------------------------------------- program constants
A == 1
B == 2
C == 3
D == 4
E == 5
F == 6
G == 7
H == 8

\* Python's None (the parent of the start node, the end of a parent chain,
\* the value of a variable that is not bound yet).
None == 0

\* The 'Start' label of the step-0 trace record.
StartLabel == 0 - 1

\* The directed graph of the program.
GRAPH ==
    (A :> <<D, B>>) @@ (B :> <<C, E, G>>) @@ (C :> <<A>>) @@ (D :> <<C, A>>) @@
    (E :> <<H>>) @@ (F :> <<>>) @@ (G :> <<F>>) @@ (H :> <<G, F>>)

\* ------------------------------------------------------------------ state
VARIABLES
    graph,        \* the adjacency mapping handed to both searches
    start_node,   \* the start node
    goal_node,    \* the goal node
    pc,           \* where the run is
    bfs,          \* the locals of breadth_first_search
    dfs           \* the locals of depth_first_search

vars == <<graph, start_node, goal_node, pc, bfs, dfs>>

\* ----------------------------------------------------- Python primitives
Range(s) == {s[i] : i \in 1..Len(s)}

\* graph.get(node, graph): the default is the mapping itself, which reads
\* as the list of its keys.
RECURSIVE keys_list(_)
keys_list(S) ==
    IF S = {} THEN <<>>
    ELSE LET k == CHOOSE x \in S : \A y \in S : x <= y
         IN  <<k>> \o keys_list(S \ {k})

graph_get_default_graph(g, node) ==
    IF node \in DOMAIN g THEN g[node] ELSE keys_list(DOMAIN g)

\* graph.get(node, [])
graph_get(g, node) == IF node \in DOMAIN g THEN g[node] ELSE <<>>

\* d.get(key): None when the key is absent
dict_get(d, key) == IF key \in DOMAIN d THEN d[key] ELSE None

\* d[key] = value: adds the key or overwrites its entry
dict_set(d, key, value) ==
    [k \in DOMAIN d \cup {key} |-> IF k = key THEN value ELSE d[k]]

RECURSIVE insort(_, _)
insort(x, s) ==
    IF s = <<>> THEN <<x>>
    ELSE IF x < Head(s) THEN <<x>> \o s
    ELSE <<Head(s)>> \o insort(x, Tail(s))

\* The list as it is: no call of sorted.
sorted_not_sorted(s) == s

\* sorted(s): ascending
RECURSIVE sorted(_)
sorted(s) == IF s = <<>> THEN <<>> ELSE insort(Head(s), sorted(Tail(s)))

\* s[::-1] and list.reverse()
RECURSIVE reversed(_)
reversed(s) == IF s = <<>> THEN <<>> ELSE Append(reversed(Tail(s)), Head(s))

\* The descending sort without "reverse=True".
sorted_not_reversed(s) == sorted(s)

\* sorted(s, reverse=True): descending
sorted_reverse(s) == reversed(sorted(s))

\* ------------------------------------------------------- the inner loops
\* "while queue:" / "while stack:" is false: the frontier is empty.
loop_exits_never(frontier) == FALSE

loop_exits(frontier) == frontier = <<>>

\* The goal test that never succeeds: the loop has no "break".
is_goal_never(current_node, goal) == FALSE

\* "if current_node == goal_node: break" of both searches.
is_goal(current_node, goal) == current_node = goal

\* The test that always succeeds: no visited check at all.
not_in_visited_always(neighbor, visited) == TRUE

\* "if neighbor not in visited" of both searches.
not_in_visited(neighbor, visited) == neighbor \notin visited

\* for_neighbors with "level[neighbor] = level[current_node]" (no + 1).
RECURSIVE for_neighbors_same_level(_, _, _)
for_neighbors_same_level(neighbors, current_node, st) ==
    IF neighbors = <<>> THEN st
    ELSE LET neighbor == Head(neighbors) IN
         IF neighbor \notin st.visited
         THEN for_neighbors_same_level(Tail(neighbors), current_node,
                  [visited    |-> st.visited \cup {neighbor},
                   parent_map |-> dict_set(st.parent_map, neighbor, current_node),
                   level      |-> dict_set(st.level, neighbor,
                                           st.level[current_node]),
                   frontier   |-> Append(st.frontier, neighbor)])
         ELSE for_neighbors_same_level(Tail(neighbors), current_node, st)

\* for_neighbors with the level taken from the depth of the frontier.
RECURSIVE for_neighbors_level_by_depth(_, _, _)
for_neighbors_level_by_depth(neighbors, current_node, st) ==
    IF neighbors = <<>> THEN st
    ELSE LET neighbor == Head(neighbors) IN
         IF neighbor \notin st.visited
         THEN for_neighbors_level_by_depth(Tail(neighbors), current_node,
                  [visited    |-> st.visited \cup {neighbor},
                   parent_map |-> dict_set(st.parent_map, neighbor, current_node),
                   level      |-> dict_set(st.level, neighbor,
                                           Len(st.frontier) + 1),
                   frontier   |-> Append(st.frontier, neighbor)])
         ELSE for_neighbors_level_by_depth(Tail(neighbors), current_node, st)

\* for_neighbors with a "break" after the first new neighbor.
for_neighbors_first_only(neighbors, current_node, st) ==
    LET new == SelectSeq(neighbors, LAMBDA n : n \notin st.visited) IN
    IF new = <<>> THEN st
    ELSE [visited    |-> st.visited \cup {Head(new)},
          parent_map |-> dict_set(st.parent_map, Head(new), current_node),
          level      |-> dict_set(st.level, Head(new),
                                  st.level[current_node] + 1),
          frontier   |-> Append(st.frontier, Head(new))]

\* for_neighbors with "visited = {neighbor}" in place of "visited.add(neighbor)".
RECURSIVE for_neighbors_visited_replaced(_, _, _)
for_neighbors_visited_replaced(neighbors, current_node, st) ==
    IF neighbors = <<>> THEN st
    ELSE LET neighbor == Head(neighbors) IN
         IF neighbor \notin st.visited
         THEN for_neighbors_visited_replaced(Tail(neighbors), current_node,
                  [visited    |-> {neighbor},
                   parent_map |-> dict_set(st.parent_map, neighbor, current_node),
                   level      |-> dict_set(st.level, neighbor,
                                           st.level[current_node] + 1),
                   frontier   |-> Append(st.frontier, neighbor)])
         ELSE for_neighbors_visited_replaced(Tail(neighbors), current_node, st)

\* for neighbor in neighbors: if neighbor not in visited: ... append(neighbor)
\* st holds visited, parent_map, level and the frontier (queue or stack);
\* both searches append the new node at the right end.
RECURSIVE for_neighbors(_, _, _)
for_neighbors(neighbors, current_node, st) ==
    IF neighbors = <<>> THEN st
    ELSE LET neighbor == Head(neighbors) IN
         IF not_in_visited(neighbor, st.visited)
         THEN for_neighbors(Tail(neighbors), current_node,
                  [visited    |-> st.visited \cup {neighbor},
                   parent_map |-> dict_set(st.parent_map, neighbor, current_node),
                   level      |-> dict_set(st.level, neighbor,
                                           st.level[current_node] + 1),
                   frontier   |-> Append(st.frontier, neighbor)])
         ELSE for_neighbors(Tail(neighbors), current_node, st)

\* The walk that stops one node early: "while parent_map.get(curr) is not None".
RECURSIVE walk_parents_skip_start(_, _, _)
walk_parents_skip_start(parent_map, curr, path) ==
    IF dict_get(parent_map, curr) = None THEN path
    ELSE walk_parents_skip_start(parent_map, dict_get(parent_map, curr),
                                 Append(path, curr))

\* while curr is not None: path.append(curr); curr = parent_map.get(curr)
RECURSIVE walk_parents(_, _, _)
walk_parents(parent_map, curr, path) ==
    IF curr = None THEN path
    ELSE walk_parents(parent_map, dict_get(parent_map, curr), Append(path, curr))

\* The block without "path.reverse()".
reconstruct_path_unreversed(current_node, goal, parent_map) ==
    IF current_node = goal
    THEN walk_parents(parent_map, goal, <<>>)
    ELSE <<>>

\* The block without "if current_node == goal_node".
reconstruct_path_unchecked(current_node, goal, parent_map) ==
    reversed(walk_parents(parent_map, goal, <<>>))

\* The "Reconstruct Path" block of both searches.
reconstruct_path(current_node, goal, parent_map) ==
    IF current_node = goal
    THEN reversed(walk_parents(parent_map, goal, <<>>))
    ELSE <<>>

\* ----------------------------------------------------------------- inputs
SmallNodes == 1..NumNodes

\* The edge lists of the bounded graphs, grouped by source node: every
\* adjacency mapping is the mapping of exactly one of them.
EdgeLists ==
    {es \in UNION {[1..n -> SmallNodes \X SmallNodes] : n \in 0..MaxEdges} :
        \A i \in 1..(Len(es) - 1) : es[i][1] <= es[i + 1][1]}

\* The successor list of u in an edge list: the targets of u's edges, in order.
RECURSIVE succ_list(_, _)
succ_list(es, u) ==
    IF es = <<>> THEN <<>>
    ELSE IF Head(es)[1] = u THEN <<Head(es)[2]>> \o succ_list(Tail(es), u)
    ELSE succ_list(Tail(es), u)

Sources(es) == {es[i][1] : i \in 1..Len(es)}

\* The adjacency mapping of an edge list; the nodes of K are keys too, with
\* an empty successor list when they have no edge.
small_graph(es, K) == [u \in Sources(es) \cup K |-> succ_list(es, u)]

\* The locals of breadth_first_search before its loop.  removed and added
\* are the history of the frontier: the nodes taken from it (popleft) and the
\* nodes put into it (the initial deque and every append), in order.
bfs_init(start) ==
    [queue           |-> <<start>>,
     visited         |-> {start},
     parent_map      |-> (start :> None),
     level           |-> (start :> 0),
     expansion_order |-> 0,
     current_node    |-> None,
     process_steps   |-> <<[Step |-> 0, Expansion |-> StartLabel, Level |-> 0,
                            Frontier |-> <<start>>, Visited |-> {start}]>>,
     path            |-> <<>>,
     removed         |-> <<>>,
     added           |-> <<start>>]

\* The locals of depth_first_search before its loop, with the same history
\* of the frontier (pop, the initial list and every append).
dfs_init(start) ==
    [stack           |-> <<start>>,
     visited         |-> {start},
     parent_map      |-> (start :> None),
     level           |-> (start :> 0),
     expansion_order |-> 0,
     current_node    |-> None,
     process_steps   |-> <<[Step |-> 0, Expansion |-> StartLabel, Level |-> 0,
                            Frontier |-> <<start>>, Visited |-> {start}]>>,
     path            |-> <<>>,
     removed         |-> <<>>,
     added           |-> <<start>>]

Init ==
    /\ \/ /\ graph = GRAPH
          /\ start_node \in DOMAIN GRAPH
          /\ goal_node \in DOMAIN GRAPH
       \/ /\ \E es \in EdgeLists, K \in {{}, SmallNodes} :
                 graph = small_graph(es, K)
          /\ start_node \in SmallNodes
          /\ goal_node \in SmallNodes
    /\ pc = "bfs_loop"
    /\ bfs = bfs_init(start_node)
    /\ dfs = dfs_init(start_node)

\* ------------------------------------------------------------ BFS actions
\* One iteration of "while queue:" in breadth_first_search.
BfsStep ==
    /\ pc = "bfs_loop"
    /\ bfs.queue # <<>>
    /\ \E current_node \in {Head(bfs.queue)},
          queue \in {Tail(bfs.queue)},
          order \in {bfs.expansion_order + 1} :
           IF is_goal(current_node, goal_node)
           THEN /\ bfs' = [bfs EXCEPT !.queue = queue,
                                      !.current_node = current_node,
                                      !.expansion_order = order,
                                      !.removed = Append(@, current_node)]
                /\ pc' = "bfs_break"
           ELSE \E neighbors \in {sorted(graph_get(graph, current_node))},
                   new_frontier \in {queue} :
                \E st \in {for_neighbors(neighbors, current_node,
                              [visited    |-> bfs.visited,
                               parent_map |-> bfs.parent_map,
                               level      |-> bfs.level,
                               frontier   |-> queue])} :
                    /\ bfs' = [bfs EXCEPT
                           !.queue = st.frontier,
                           !.visited = st.visited,
                           !.parent_map = st.parent_map,
                           !.level = st.level,
                           !.current_node = current_node,
                           !.expansion_order = order,
                           !.removed = Append(@, current_node),
                           !.added = @ \o SubSeq(st.frontier, Len(queue) + 1,
                                                 Len(st.frontier)),
                           !.process_steps = Append(@,
                               [Step      |-> order,
                                Expansion |-> current_node,
                                Level     |-> st.level[current_node],
                                Frontier  |-> new_frontier \o sorted(st.frontier),
                                Visited   |-> st.visited])]
                    /\ pc' = "bfs_loop"
    /\ UNCHANGED <<graph, start_node, goal_node, dfs>>

\* The loop is over (break, or the queue is empty): reconstruct the path
\* and return; the caller goes on to depth_first_search.
BfsReturn ==
    /\ \/ pc = "bfs_break"
       \/ pc = "bfs_loop" /\ loop_exits(bfs.queue)
    /\ bfs' = [bfs EXCEPT !.path =
                   reconstruct_path(bfs.current_node, goal_node, bfs.parent_map)]
    /\ pc' = "dfs_loop"
    /\ UNCHANGED <<graph, start_node, goal_node, dfs>>

\* ------------------------------------------------------------ DFS actions
\* One iteration of "while stack:" in depth_first_search.
DfsStep ==
    /\ pc = "dfs_loop"
    /\ dfs.stack # <<>>
    /\ \E current_node \in {dfs.stack[Len(dfs.stack)]},
          stack \in {SubSeq(dfs.stack, 1, Len(dfs.stack) - 1)},
          order \in {dfs.expansion_order + 1} :
           IF is_goal(current_node, goal_node)
           THEN /\ dfs' = [dfs EXCEPT !.stack = stack,
                                      !.current_node = current_node,
                                      !.expansion_order = order,
                                      !.removed = Append(@, current_node)]
                /\ pc' = "dfs_break"
           ELSE \E neighbors \in {sorted_reverse(graph_get(graph, current_node))} :
                \E st \in {for_neighbors(neighbors, current_node,
                              [visited    |-> dfs.visited,
                               parent_map |-> dfs.parent_map,
                               level      |-> dfs.level,
                               frontier   |-> stack])} :
                    /\ dfs' = [dfs EXCEPT
                           !.stack = st.frontier,
                           !.visited = st.visited,
                           !.parent_map = st.parent_map,
                           !.level = st.level,
                           !.current_node = current_node,
                           !.expansion_order = order,
                           !.removed = Append(@, current_node),
                           !.added = @ \o SubSeq(st.frontier, Len(stack) + 1,
                                                 Len(st.frontier)),
                           !.process_steps = Append(@,
                               [Step      |-> order,
                                Expansion |-> current_node,
                                Level     |-> st.level[current_node],
                                Frontier  |-> reversed(st.frontier),
                                Visited   |-> st.visited])]
                    /\ pc' = "dfs_loop"
    /\ UNCHANGED <<graph, start_node, goal_node, bfs>>

\* The loop is over: reconstruct the path and return.
DfsReturn ==
    /\ \/ pc = "dfs_break"
       \/ pc = "dfs_loop" /\ loop_exits(dfs.stack)
    /\ dfs' = [dfs EXCEPT !.path =
                   reconstruct_path(dfs.current_node, goal_node, dfs.parent_map)]
    /\ pc' = "done"
    /\ UNCHANGED <<graph, start_node, goal_node, bfs>>

Next == BfsStep \/ BfsReturn \/ DfsStep \/ DfsReturn

Spec == Init /\ [][Next]_vars

\* Both searches are straight-line sequential code: a step that can be taken
\* is taken.
FairSpec == Spec /\ WF_vars(Next)

\* ------------------------------------------------- graph-theoretic notions
\* What the claims measure the searches against; none of it is taken from
\* the searches.
Successors(u) == Range(graph_get(graph, u))

IsEdge(u, v) == v \in Successors(u)

\* Every node that occurs in the run's input.
AllNodes ==
    DOMAIN graph \cup UNION {Range(graph[u]) : u \in DOMAIN graph}
                 \cup {start_node, goal_node}

\* The successors of the nodes of S.
Image(S) == UNION {Successors(u) : u \in S}

\* WalkEnds[k + 1] is the set of nodes at which a walk of exactly k edges
\* from start_node can end, for k up to the number of nodes.
RECURSIVE walk_ends(_, _)
walk_ends(ends, n) ==
    IF n = 0 THEN ends
    ELSE walk_ends(Append(ends, Image(ends[Len(ends)])), n - 1)

WalkEnds == walk_ends(<<{start_node}>>, Cardinality(AllNodes))

ReachableIn(W) == UNION {W[i] : i \in 1..Len(W)}

Reachable == ReachableIn(WalkEnds)

\* The minimum number of edges of a path from start_node to a reachable n.
MinEdgesIn(W, n) ==
    CHOOSE k \in 0..(Len(W) - 1) :
        /\ n \in W[k + 1]
        /\ \A j \in 0..(k - 1) : n \notin W[j + 1]

\* p runs from start_node to goal_node along edges of the graph.
IsPathToGoal(p) ==
    /\ p # <<>>
    /\ p[1] = start_node
    /\ p[Len(p)] = goal_node
    /\ \A i \in 1..(Len(p) - 1) : IsEdge(p[i], p[i + 1])

BfsReturned == pc \in {"dfs_loop", "dfs_break", "done"}
DfsReturned == pc = "done"

\* ------------------------------------------------------------------ claims
\* C1: every node to which breadth_first_search has assigned a level, at any
\* point of the run and in the returned level map, has a level equal to the
\* minimum number of edges of a path from start to it.
C1_BfsLevelIsMinimal ==
    LET W == WalkEnds IN
    \A n \in DOMAIN bfs.level :
        /\ n \in ReachableIn(W)
        /\ bfs.level[n] = MinEdgesIn(W, n)

\* BFS has returned a level map in which some node, the goal included, lies
\* two edges away from start.
C1_Witness ==
    /\ BfsReturned
    /\ goal_node \in DOMAIN bfs.level
    /\ bfs.level[goal_node] >= 2
    /\ Cardinality(DOMAIN bfs.level) >= 3

\* C2: for both searches, every returned non-empty path starts with start,
\* ends with goal, and each consecutive pair of it is an edge of the graph.
C2_PathIsValid ==
    /\ (BfsReturned /\ bfs.path # <<>>) => IsPathToGoal(bfs.path)
    /\ (DfsReturned /\ dfs.path # <<>>) => IsPathToGoal(dfs.path)

\* Both searches have returned paths of at least two edges, and different ones.
C2_Witness ==
    /\ DfsReturned
    /\ Len(bfs.path) >= 3
    /\ Len(dfs.path) >= 3
    /\ bfs.path # dfs.path

\* C3: for both searches the returned path is empty if and only if goal is
\* not reachable from start (start itself is reachable); on the 8-node graph
\* with start = F and goal = A both return the empty path.
C3_EmptyIffUnreachable ==
    /\ BfsReturned => ((bfs.path = <<>>) <=> (goal_node \notin Reachable))
    /\ DfsReturned => ((dfs.path = <<>>) <=> (goal_node \notin Reachable))
    /\ (DfsReturned /\ graph = GRAPH /\ start_node = F /\ goal_node = A)
           => (bfs.path = <<>> /\ dfs.path = <<>>)

\* Both searches have returned on the 8-node graph with start = F, goal = A.
C3_Witness ==
    /\ DfsReturned
    /\ graph = GRAPH
    /\ start_node = F
    /\ goal_node = A
    /\ bfs.path = <<>>
    /\ dfs.path = <<>>

\* C4: when goal is reachable, the path breadth_first_search returns is a
\* shortest one: its number of edges equals level[goal], which is the
\* minimum edge count, and no walk from start with fewer edges ends at goal.
C4_BfsPathIsShortest ==
    LET W == WalkEnds IN
    (BfsReturned /\ goal_node \in ReachableIn(W)) =>
        /\ IsPathToGoal(bfs.path)
        /\ goal_node \in DOMAIN bfs.level
        /\ Len(bfs.path) - 1 = bfs.level[goal_node]
        /\ bfs.level[goal_node] = MinEdgesIn(W, goal_node)
        /\ \A k \in 0..(Len(bfs.path) - 2) : goal_node \notin W[k + 1]

\* BFS has returned a path of three edges although DFS finds a longer one.
C4_Witness ==
    /\ DfsReturned
    /\ Len(bfs.path) = 4
    /\ Len(dfs.path) > Len(bfs.path)

\* Every occurrence of y in s comes after an occurrence of x.
NeverBefore(s, x, y) ==
    \A i \in 1..Len(s) : s[i] = y => \E j \in 1..(i - 1) : s[j] = x

\* x and y were discovered by the expansion of one node.
Siblings(parent_map, x, y) ==
    /\ x \in DOMAIN parent_map
    /\ y \in DOMAIN parent_map
    /\ parent_map[x] # None
    /\ parent_map[x] = parent_map[y]

TieBreak(parent_map, removed) ==
    \A x \in DOMAIN parent_map, y \in DOMAIN parent_map :
        (x < y /\ Siblings(parent_map, x, y)) => NeverBefore(removed, x, y)

\* C5: when the expansion of one node discovers two new successors X < Y,
\* Y is never removed from the frontier before X has been removed, in
\* breadth_first_search and in depth_first_search.
C5_TieBreak ==
    /\ TieBreak(bfs.parent_map, bfs.removed)
    /\ TieBreak(dfs.parent_map, dfs.removed)

\* Both searches have removed two siblings X < Y, and DFS has expanded a
\* descendant of X between them.
C5_Witness ==
    \E x \in DOMAIN dfs.parent_map, y \in DOMAIN dfs.parent_map :
        /\ x < y
        /\ Siblings(dfs.parent_map, x, y)
        /\ Siblings(bfs.parent_map, x, y)
        /\ {x, y} \subseteq Range(bfs.removed)
        /\ \E i \in 1..Len(dfs.removed), j \in 1..Len(dfs.removed) :
               /\ dfs.removed[i] = x
               /\ dfs.removed[j] = y
               /\ j > i + 1

NoDuplicates(s) == \A i \in 1..Len(s), j \in 1..Len(s) : s[i] = s[j] => i = j

\* C6: in both searches no node is removed from the frontier more than once
\* and no node is added to it twice, whatever duplicates and cycles the
\* graph has; the number of expansions is at most the number of nodes
\* reachable from start.
C6_NoNodeTwice ==
    LET R == Reachable IN
    /\ NoDuplicates(bfs.removed)
    /\ NoDuplicates(bfs.added)
    /\ NoDuplicates(dfs.removed)
    /\ NoDuplicates(dfs.added)
    /\ bfs.expansion_order = Len(bfs.removed)
    /\ dfs.expansion_order = Len(dfs.removed)
    /\ bfs.expansion_order <= Cardinality(R)
    /\ dfs.expansion_order <= Cardinality(R)

\* Both searches have expanded a node whose successor list names one node
\* twice and names a node that was in the frontier before (a cycle).
C6_Witness ==
    /\ DfsReturned
    /\ \E u \in Range(bfs.removed) \cap Range(dfs.removed) :
           /\ ~NoDuplicates(graph_get(graph, u))
           /\ Successors(u) \cap Range(bfs.removed) # {}
           /\ Successors(u) \cap Range(dfs.removed) # {}

\* C7: both traversals terminate on every finite graph, cycles and
\* self-loops included: each loop reaches the goal or an empty frontier
\* after finitely many steps, and the run returns.
C7_Terminates == <>(pc = "done")

\* Both searches are over after expanding at least two nodes of a graph with
\* a cycle: each has expanded a node with an edge to itself or back to a node
\* expanded before it.
C7_Witness ==
    /\ DfsReturned
    /\ Len(bfs.removed) >= 2
    /\ Len(dfs.removed) >= 2
    /\ \E i \in 1..Len(dfs.removed), j \in 1..Len(dfs.removed) :
           i <= j /\ IsEdge(dfs.removed[j], dfs.removed[i])
    /\ \E i \in 1..Len(bfs.removed), j \in 1..Len(bfs.removed) :
           i <= j /\ IsEdge(bfs.removed[j], bfs.removed[i])

\* The parent chain n, parent[n], parent[parent[n]], ... of at most fuel nodes.
RECURSIVE ParentChain(_, _, _)
ParentChain(parent_map, n, fuel) ==
    IF n = None \/ fuel = 0 \/ n \notin DOMAIN parent_map THEN <<>>
    ELSE <<n>> \o ParentChain(parent_map, parent_map[n], fuel - 1)

\* ch is a path of the graph, read from its end back to start_node.
IsChainFromStart(ch) ==
    /\ ch # <<>>
    /\ ch[Len(ch)] = start_node
    /\ \A i \in 1..(Len(ch) - 1) : IsEdge(ch[i + 1], ch[i])

\* C8: with goal reachable, the level depth_first_search assigns to goal is
\* at least the level breadth_first_search assigns to it; and the DFS level
\* of every discovered node is the number of edges of its parent chain from
\* start, which is a path of the graph.
C8_DfsLevel ==
    /\ (DfsReturned /\ goal_node \in Reachable) =>
           /\ goal_node \in DOMAIN dfs.level
           /\ goal_node \in DOMAIN bfs.level
           /\ dfs.level[goal_node] >= bfs.level[goal_node]
    /\ \A n \in DOMAIN dfs.level :
           LET ch == ParentChain(dfs.parent_map, n,
                                 Cardinality(DOMAIN dfs.parent_map) + 1)
           IN  /\ IsChainFromStart(ch)
               /\ dfs.level[n] = Len(ch) - 1

\* DFS has returned with a level for goal that is larger than the BFS level.
C8_Witness ==
    /\ DfsReturned
    /\ goal_node \in DOMAIN dfs.level
    /\ goal_node \in DOMAIN bfs.level
    /\ dfs.level[goal_node] > bfs.level[goal_node]

\* The trace has the step-0 record and one record per removed node, in order.
TraceRecordsAll(process_steps, removed) ==
    /\ Len(process_steps) = 1 + Len(removed)
    /\ process_steps[1].Step = 0
    /\ process_steps[1].Expansion = StartLabel
    /\ \A i \in 1..Len(removed) :
           /\ process_steps[i + 1].Step = i
           /\ process_steps[i + 1].Expansion = removed[i]

\* C9: when goal is unreachable, both runs go on until the frontier is
\* empty (no break), the trace records every expansion (step 0 and one
\* record per removed node), the returned level map has entries exactly for
\* the nodes reachable from start, and goal has no entry.
C9_Unreachable ==
    LET R == Reachable IN
    (goal_node \notin R) =>
        /\ pc \notin {"bfs_break", "dfs_break"}
        /\ BfsReturned =>
               /\ bfs.queue = <<>>
               /\ TraceRecordsAll(bfs.process_steps, bfs.removed)
               /\ DOMAIN bfs.level = R
               /\ goal_node \notin DOMAIN bfs.level
        /\ DfsReturned =>
               /\ dfs.stack = <<>>
               /\ TraceRecordsAll(dfs.process_steps, dfs.removed)
               /\ DOMAIN dfs.level = R
               /\ goal_node \notin DOMAIN dfs.level

\* Both searches have returned without reaching goal after expanding at
\* least three nodes.
C9_Witness ==
    /\ DfsReturned
    /\ goal_node \notin Reachable
    /\ Len(bfs.removed) >= 3
    /\ Len(dfs.removed) >= 3
    /\ bfs.path = <<>>
    /\ dfs.path = <<>>

VisitedGrows(process_steps) ==
    /\ process_steps[1].Visited = {start_node}
    /\ \A i \in 1..(Len(process_steps) - 1) :
           process_steps[i].Visited \subseteq process_steps[i + 1].Visited

\* C10: in both searches the Visited set of every trace record is a
\* superset of the Visited set of the record before it, and record 0 has
\* Visited = {start}.
C10_VisitedMonotonic ==
    /\ VisitedGrows(bfs.process_steps)
    /\ VisitedGrows(dfs.process_steps)

\* Both traces have at least three records after step 0, and their last
\* Visited set is larger than the one two records earlier.
C10_Witness ==
    /\ Len(bfs.process_steps) >= 4
    /\ Len(dfs.process_steps) >= 4
    /\ bfs.process_steps[2].Visited # bfs.process_steps[4].Visited
    /\ dfs.process_steps[2].Visited # dfs.process_steps[4].Visited

\* C11: when start = goal, both searches stop at the first removal from the
\* frontier and return path = [start] with level[start] = 0, whatever the
\* graph is; no successor of start is discovered.
C11_StartIsGoal ==
    (start_node = goal_node) =>
        /\ Len(bfs.removed) <= 1
        /\ Len(dfs.removed) <= 1
        /\ bfs.visited = {start_node}
        /\ dfs.visited = {start_node}
        /\ BfsReturned =>
               /\ bfs.removed = <<start_node>>
               /\ bfs.path = <<start_node>>
               /\ bfs.level = (start_node :> 0)
        /\ DfsReturned =>
               /\ dfs.removed = <<start_node>>
               /\ dfs.path = <<start_node>>
               /\ dfs.level = (start_node :> 0)

\* Both searches have returned for start = goal on a graph in which start
\* has a successor other than itself.
C11_Witness ==
    /\ DfsReturned
    /\ start_node = goal_node
    /\ Successors(start_node) \ {start_node} # {}
    /\ bfs.path = <<start_node>>
    /\ dfs.path = <<start_node>>

\* The expansion of a node that is no key of the graph discovers nothing.
NonKeyDiscoversNothing(process_steps) ==
    \A i \in 2..Len(process_steps) :
        process_steps[i].Expansion \notin DOMAIN graph =>
            process_steps[i].Visited = process_steps[i - 1].Visited

\* C12: a node that is not a key of the graph (start or a discovered
\* successor) is treated as having no successors: if start is no key and
\* start # goal, each traversal performs exactly one expansion and returns
\* the empty path; if start = goal it returns [start].
C12_MissingKey ==
    /\ NonKeyDiscoversNothing(bfs.process_steps)
    /\ NonKeyDiscoversNothing(dfs.process_steps)
    /\ (start_node \notin DOMAIN graph /\ BfsReturned) =>
           /\ bfs.removed = <<start_node>>
           /\ bfs.expansion_order = 1
           /\ bfs.path = IF start_node = goal_node THEN <<start_node>> ELSE <<>>
    /\ (start_node \notin DOMAIN graph /\ DfsReturned) =>
           /\ dfs.removed = <<start_node>>
           /\ dfs.expansion_order = 1
           /\ dfs.path = IF start_node = goal_node THEN <<start_node>> ELSE <<>>

\* Both searches have returned the empty path after one expansion, for a
\* start that is no key of a graph that has keys.
C12_Witness ==
    /\ DfsReturned
    /\ start_node \notin DOMAIN graph
    /\ DOMAIN graph # {}
    /\ start_node # goal_node
    /\ Len(bfs.process_steps) = 2
    /\ Len(dfs.process_steps) = 2
    /\ bfs.path = <<>>
    /\ dfs.path = <<>>

FixedRun == graph = GRAPH /\ start_node = A /\ goal_node = F

\* C13: on the 8-node graph with start = A and goal = F,
\* breadth_first_search returns the path A, B, G, F and a level map in
\* which A = 0, B = 1, D = 1, C = 2, E = 2, G = 2 and F = 3.
C13_FixedBfsResult ==
    (FixedRun /\ BfsReturned) =>
        /\ bfs.path = <<A, B, G, F>>
        /\ {A, B, C, D, E, F, G} \subseteq DOMAIN bfs.level
        /\ bfs.level[A] = 0
        /\ bfs.level[B] = 1
        /\ bfs.level[D] = 1
        /\ bfs.level[C] = 2
        /\ bfs.level[E] = 2
        /\ bfs.level[G] = 2
        /\ bfs.level[F] = 3

\* breadth_first_search has returned from the run A to F on the 8-node graph.
C13_Witness ==
    /\ FixedRun
    /\ BfsReturned
    /\ Len(bfs.path) = 4
    /\ Cardinality(DOMAIN bfs.level) = 8

\* The nodes the expansion recorded in trace record i has discovered.
DiscoveredAt(process_steps, i) ==
    process_steps[i].Visited \ process_steps[i - 1].Visited

\* C19 as stated: on the 8-node graph with start = A and goal = F,
\* breadth_first_search expands A, then D, then B; C is first discovered by
\* the expansion of D (the parent of C is D), and the expansion of B
\* discovers only E and G.
C19_AsStated ==
    (FixedRun /\ Len(bfs.removed) >= 3) =>
        /\ SubSeq(bfs.removed, 1, 3) = <<A, D, B>>
        /\ bfs.parent_map[C] = D
        /\ bfs.process_steps[4].Expansion = B
        /\ DiscoveredAt(bfs.process_steps, 4) = {E, G}

\* C19 (amended): on the 8-node graph with start = A and goal = F,
\* breadth_first_search expands A, then B, then D: B is expanded before D,
\* C is first discovered by the expansion of B (the parent of C is B)
\* together with E and G, and the expansion of D discovers nothing.
C19_FixedBfsOrder ==
    (FixedRun /\ Len(bfs.removed) >= 3) =>
        /\ SubSeq(bfs.removed, 1, 3) = <<A, B, D>>
        /\ bfs.parent_map[C] = B
        /\ bfs.process_steps[3].Expansion = B
        /\ DiscoveredAt(bfs.process_steps, 3) = {C, E, G}
        /\ bfs.process_steps[4].Expansion = D
        /\ DiscoveredAt(bfs.process_steps, 4) = {}

\* breadth_first_search has expanded A, B and D in the run A to F.
C19_Witness ==
    /\ FixedRun
    /\ pc = "bfs_loop"
    /\ Len(bfs.removed) = 3
    /\ bfs.queue = <<C, E, G>>

\* The loop of the search has ended by removing the goal from the frontier.
BfsBroke == pc = "bfs_break" \/ (BfsReturned /\ bfs.current_node = goal_node)
DfsBroke == pc = "dfs_break" \/ (DfsReturned /\ dfs.current_node = goal_node)

\* The Expansion entries of the trace records after step 0, in order.
Expansions(process_steps) ==
    [i \in 1..(Len(process_steps) - 1) |-> process_steps[i + 1].Expansion]

AllButLast(s) == SubSeq(s, 1, Len(s) - 1)

\* C14 as stated: every node removed from the frontier, the goal included,
\* is the Expansion of exactly one trace record, in removal order after the
\* step-0 record.
C14_AsStated ==
    /\ TraceRecordsAll(bfs.process_steps, bfs.removed)
    /\ TraceRecordsAll(dfs.process_steps, dfs.removed)

\* The records after step 0 are those of the removed nodes, in removal order
\* and numbered from 1, without the goal when the goal has been removed.
TraceRecordsExpanded(process_steps, removed) ==
    /\ process_steps[1].Step = 0
    /\ process_steps[1].Expansion = StartLabel
    /\ \A i \in 2..Len(process_steps) : process_steps[i].Step = i - 1
    /\ Expansions(process_steps) =
           IF removed # <<>> /\ removed[Len(removed)] = goal_node
           THEN AllButLast(removed)
           ELSE removed

\* C14 (amended): each trace holds one record per removed node other than
\* the goal: every node removed from the frontier, except the goal whose
\* removal ends the loop, is the Expansion of exactly one trace record, in
\* removal order after the step-0 record; the removal of the goal adds no
\* record.
C14_TraceRecords ==
    /\ TraceRecordsExpanded(bfs.process_steps, bfs.removed)
    /\ TraceRecordsExpanded(dfs.process_steps, dfs.removed)
    /\ NoDuplicates(Expansions(bfs.process_steps))
    /\ NoDuplicates(Expansions(dfs.process_steps))

\* Both searches have ended by removing the goal after at least two other
\* expansions, and their traces have no record for the goal.
C14_Witness ==
    /\ DfsReturned
    /\ BfsBroke
    /\ DfsBroke
    /\ Len(bfs.removed) >= 3
    /\ Len(dfs.removed) >= 3
    /\ Len(bfs.process_steps) = Len(bfs.removed)
    /\ Len(dfs.process_steps) = Len(dfs.removed)

IsAscending(s) == \A i \in 1..(Len(s) - 1) : s[i] < s[i + 1]

\* C15: in every breadth_first_search trace record with step >= 1 the
\* frontier snapshot contains exactly the nodes that are in the queue at the
\* end of that step, each exactly once, in ascending order.  (Every such
\* record is the last one right after its step, when the queue is the queue
\* at the end of that step.)
C15_BfsFrontierSnapshot ==
    (pc = "bfs_loop" /\ Len(bfs.process_steps) >= 2) =>
        LET snapshot == bfs.process_steps[Len(bfs.process_steps)].Frontier
        IN  /\ Range(snapshot) = Range(bfs.queue)
            /\ Len(snapshot) = Len(bfs.queue)
            /\ IsAscending(snapshot)

\* C16 as stated: when a run ends because the goal was removed from the
\* frontier, no successor of the goal is in the visited set at termination,
\* nor in the Visited snapshot of the final trace record.
C16_AsStated ==
    /\ BfsBroke =>
           /\ Successors(goal_node) \cap bfs.visited = {}
           /\ Successors(goal_node)
                  \cap bfs.process_steps[Len(bfs.process_steps)].Visited = {}
    /\ DfsBroke =>
           /\ Successors(goal_node) \cap dfs.visited = {}
           /\ Successors(goal_node)
                  \cap dfs.process_steps[Len(dfs.process_steps)].Visited = {}

\* The goal has discovered nothing: no node has the goal as its parent, and
\* a visited successor of the goal is start or was discovered by the
\* expansion of another node.
GoalDiscoversNothing(visited, parent_map) ==
    /\ \A n \in DOMAIN parent_map : parent_map[n] # goal_node
    /\ \A n \in Successors(goal_node) \cap visited :
           \/ n = start_node
           \/ /\ parent_map[n] # goal_node
              /\ IsEdge(parent_map[n], n)

\* C16 (amended): in both strategies the goal is never expanded, so when a
\* run ends because the goal was removed from the frontier, no successor of
\* the goal is in the visited set (nor in the Visited snapshot of the final
\* trace record) on account of the goal: a successor of the goal is visited
\* only if it is start or was discovered by the expansion of another node.
C16_GoalNotExpanded ==
    /\ GoalDiscoversNothing(bfs.visited, bfs.parent_map)
    /\ GoalDiscoversNothing(dfs.visited, dfs.parent_map)
    /\ BfsBroke => bfs.process_steps[Len(bfs.process_steps)].Visited = bfs.visited
    /\ DfsBroke => dfs.process_steps[Len(dfs.process_steps)].Visited = dfs.visited

\* Both searches have ended at a goal that has one successor already visited
\* through another node and one that was never discovered.
C16_Witness ==
    /\ DfsReturned
    /\ BfsBroke
    /\ DfsBroke
    /\ start_node # goal_node
    /\ Successors(goal_node) \cap bfs.visited # {}
    /\ Successors(goal_node) \cap dfs.visited # {}
    /\ Successors(goal_node) \ bfs.visited # {}
    /\ Successors(goal_node) \ dfs.visited # {}

\* The last trace record is the one of the expansion before the goal was
\* removed, or the step-0 record when the goal is the first node removed.
LastRecordBeforeGoal(process_steps, removed) ==
    LET last == process_steps[Len(process_steps)]
    IN  IF Len(removed) = 1
        THEN Len(process_steps) = 1 /\ last.Expansion = StartLabel
        ELSE last.Expansion = removed[Len(removed) - 1]

\* What the step that removes the goal leaves alone.
GoalStepFrame(old, new) ==
    /\ new.visited = old.visited
    /\ new.parent_map = old.parent_map
    /\ new.level = old.level
    /\ new.process_steps = old.process_steps
    /\ new.expansion_order = old.expansion_order + 1
    /\ new.path = old.path

\* The step after the break is the return: only the path is written.
AfterBreakFrame(old, new) ==
    /\ new.visited = old.visited
    /\ new.parent_map = old.parent_map
    /\ new.level = old.level
    /\ new.process_steps = old.process_steps
    /\ new.expansion_order = old.expansion_order
    /\ new.removed = old.removed

BfsRemovesGoal ==
    pc = "bfs_loop" /\ bfs.queue # <<>> /\ Head(bfs.queue) = goal_node

DfsRemovesGoal ==
    pc = "dfs_loop" /\ dfs.stack # <<>> /\ dfs.stack[Len(dfs.stack)] = goal_node

\* C17: the step that removes the goal from the frontier changes only the
\* frontier and the step counter: visited, the parent map, the level map
\* and the trace are unchanged by it; no further loop step follows it; and
\* the last trace record describes the expansion performed just before the
\* goal was removed (the step-0 record when start = goal).
C17_GoalStepFrame ==
    [][ /\ BfsRemovesGoal =>
               /\ GoalStepFrame(bfs, bfs')
               /\ bfs'.queue = Tail(bfs.queue)
               /\ pc' = "bfs_break"
               /\ LastRecordBeforeGoal(bfs'.process_steps, bfs'.removed)
        /\ pc = "bfs_break" =>
               /\ pc' = "dfs_loop"
               /\ bfs'.queue = bfs.queue
               /\ AfterBreakFrame(bfs, bfs')
        /\ DfsRemovesGoal =>
               /\ GoalStepFrame(dfs, dfs')
               /\ dfs'.stack = SubSeq(dfs.stack, 1, Len(dfs.stack) - 1)
               /\ pc' = "dfs_break"
               /\ LastRecordBeforeGoal(dfs'.process_steps, dfs'.removed)
        /\ pc = "dfs_break" =>
               /\ pc' = "done"
               /\ dfs'.stack = dfs.stack
               /\ AfterBreakFrame(dfs, dfs')
      ]_vars

\* DFS has just removed a goal that has undiscovered successors, after at
\* least two expansions in each search.
C17_Witness ==
    /\ pc = "dfs_break"
    /\ Len(bfs.process_steps) >= 3
    /\ Len(dfs.process_steps) >= 3
    /\ Successors(goal_node) \ dfs.visited # {}
    /\ Successors(goal_node) \ bfs.visited # {}

\* Every entry of the old map is in the new map with the same value.
EntriesKept(old, new) ==
    \A n \in DOMAIN old : n \in DOMAIN new /\ new[n] = old[n]

\* start has level 0 and no parent; every other discovered node is a
\* successor of its parent, one level below it.
TreeWellFormed(parent_map, level) ==
    /\ start_node \in DOMAIN parent_map
    /\ parent_map[start_node] = None
    /\ start_node \in DOMAIN level
    /\ level[start_node] = 0
    /\ DOMAIN level = DOMAIN parent_map
    /\ \A n \in DOMAIN parent_map \ {start_node} :
           /\ parent_map[n] \in DOMAIN level
           /\ level[n] = level[parent_map[n]] + 1
           /\ IsEdge(parent_map[n], n)

\* C18: in both strategies the parent and level entries of a node are
\* written once, when the node is discovered, and never change afterwards;
\* at every reachable state level[start] = 0, parent[start] is none, and
\* every other discovered node n has level[n] = level[parent[n]] + 1 with n
\* a successor of parent[n].
C18_WrittenOnce ==
    [][ /\ EntriesKept(bfs.parent_map, bfs'.parent_map)
        /\ EntriesKept(bfs.level, bfs'.level)
        /\ EntriesKept(dfs.parent_map, dfs'.parent_map)
        /\ EntriesKept(dfs.level, dfs'.level)
        /\ TreeWellFormed(bfs.parent_map, bfs.level)
        /\ TreeWellFormed(dfs.parent_map, dfs.level)
        /\ TreeWellFormed(bfs'.parent_map, bfs'.level)
        /\ TreeWellFormed(dfs'.parent_map, dfs'.level)
      ]_vars

\* Both searches have discovered nodes on three levels, one of them a node
\* that a later expansion reaches again.
C18_Witness ==
    /\ DfsReturned
    /\ \E n \in DOMAIN bfs.level : bfs.level[n] >= 2
    /\ \E n \in DOMAIN dfs.level : dfs.level[n] >= 2
    /\ \E n \in DOMAIN dfs.parent_map, u \in Range(dfs.removed) :
           /\ IsEdge(u, n)
           /\ dfs.parent_map[n] # u
    /\ \E n \in DOMAIN bfs.parent_map, u \in Range(bfs.removed) :
           /\ IsEdge(u, n)
           /\ bfs.parent_map[n] # u

\* The bookkeeping of one search at a loop iteration boundary.
Bookkeeping(visited, parent_map, level, frontier, removed) ==
    /\ visited = DOMAIN parent_map
    /\ visited = DOMAIN level
    /\ Range(frontier) \subseteq visited
    /\ NoDuplicates(frontier)
    /\ Range(frontier) \cap Range(removed) = {}
    /\ visited = Range(frontier) \cup Range(removed)

\* C20: at every loop iteration boundary of both traversals the visited
\* set, the key set of the parent map and the key set of the level map are
\* equal; every node in the frontier is in visited; the frontier holds no
\* node twice; and visited is the disjoint union of the nodes in the
\* frontier and the nodes already removed from it.
C20_Bookkeeping ==
    /\ Bookkeeping(bfs.visited, bfs.parent_map, bfs.level, bfs.queue, bfs.removed)
    /\ Bookkeeping(dfs.visited, dfs.parent_map, dfs.level, dfs.stack, dfs.removed)

\* Both searches are in their loops' aftermath with nodes in the frontier
\* and nodes removed from it.
C20_Witness ==
    /\ pc = "dfs_break"
    /\ Len(bfs.queue) >= 2
    /\ Len(dfs.stack) >= 2
    /\ Len(bfs.removed) >= 3
    /\ Len(dfs.removed) >= 3

=============================================================================
